---- MODULE Spec2Model ----
(***************************************************************************)
(* The container supervisor of load-balancer/src/index.ts (class           *)
(* Container): the persisted lifecycle state, the self-rescheduling alarm, *)
(* the monitor-completion handlers, start and destroy.                     *)
(*                                                                         *)
(* Every await on real I/O is a point where the other tasks of the         *)
(* instance may run; the code between two such points is one action.       *)
(* ctx.blockConcurrencyWhile is the serializer: the callbacks handed to it *)
(* run one at a time.                                                      *)
(***************************************************************************)
EXTENDS Integers, Sequences, FiniteSets, TLC

\* Outstanding (attached, not yet executed) monitor handlers the model follows.
MaxHandlers == 2
\* start() calls suspended in their setState('starting') at the same time.
MaxStarts == 2

\* type ContainerState (index.ts:8)
ContainerState == {"starting", "running", "unhealthy", "stopped", "failed"}

\* What ctx.storage.get('state') can return: a ContainerState or nothing.
Stored == ContainerState \cup {"unset"}

\* HTTP statuses the probe is answered with.
Statuses == {200, 299, 300, 503}

\* Raw outcomes of port.fetch(...) in healthCheck: a response with a status,
\* or a rejection whose message may contain either of the two known phrases.
RawOutcome ==
    [kind : {"response"}, status : Statuses, notListening : {FALSE}, noContainer : {FALSE}]
    \cup [kind : {"error"}, status : {0}, notListening : BOOLEAN, noContainer : BOOLEAN]

NoRaw == [kind |-> "none", status |-> 0, notListening |-> FALSE, noContainer |-> FALSE]

VARIABLES
    state,      \* ctx.storage 'state' key
    alarm,      \* ctx.storage alarm slot: TRUE when an alarm is pending
    running,    \* this.container.running
    monitor,    \* this.monitor !== undefined
    alive,      \* the Durable Object instance exists (constructed, not aborted)
    tick,       \* the alarm() invocation in flight
    nPending,   \* handlers attached to a monitor that has not settled
    nResolved,  \* handlers whose monitor resolved, queued for stateTx
    nRejected,  \* handlers whose monitor rejected, catch callback not yet run
    monTx,      \* states read by the then-handlers inside their stateTx body
    starts,     \* start() calls awaiting setState('starting')
    destroying, \* position of the destroy() call in flight
    dlog,       \* the steps the destroy() call of this instance has taken
    ahead,      \* resolved handlers queued at the serializer before the tick
    last        \* the step taken last and the stored state before it

vars == <<state, alarm, running, monitor, alive, tick, nPending, nResolved,
          nRejected, monTx, starts, destroying, dlog, ahead, last>>

IdleTick == [pc |-> "idle", s |-> "none", raw |-> NoRaw, threw |-> FALSE]

TypeOK ==
    /\ state \in Stored
    /\ alarm \in BOOLEAN
    /\ running \in BOOLEAN
    /\ monitor \in BOOLEAN
    /\ alive \in BOOLEAN
    /\ tick \in [pc : {"idle", "queued", "probing", "probed", "finally"},
                 s : ContainerState \cup {"none"},
                 raw : RawOutcome \cup {NoRaw},
                 threw : BOOLEAN]
    /\ nPending \in 0..(MaxHandlers + 1)
    /\ nResolved \in 0..(MaxHandlers + 1)
    /\ nRejected \in 0..(MaxHandlers + 1)
    /\ monTx \in Seq(ContainerState)
    /\ starts \in 0..MaxStarts
    /\ destroying \in {"idle", "deleteAlarm", "containerDestroy", "abort"}
    /\ dlog \in Seq(STRING)
    /\ ahead \in 0..(MaxHandlers + 1)
    /\ last \in [op : STRING, before : Stored]

----------------------------------------------------------------------------
(* Pure helpers *)

\* Container.state(): absent reads as 'starting'
StateRead(stored) == IF stored = "unset" THEN "starting" ELSE stored

isNotListeningError(raw) == raw.notListening

noContainerYetError(raw) == raw.noContainer

\* ResponseOk as a test for 200 alone
ResponseOk_Only200(status) == status = 200

ResponseOk(status) == status >= 200 /\ status <= 299

\* Container.healthCheck: the value returned, or the error rethrown
healthCheck(raw) ==
    IF raw.kind = "error"
    THEN IF isNotListeningError(raw) THEN [threw |-> FALSE, value |-> "not_listening"]
         ELSE IF noContainerYetError(raw) THEN [threw |-> FALSE, value |-> "no_container_yet"]
         ELSE [threw |-> TRUE, value |-> "null"]
    ELSE IF ResponseOk(raw.status) THEN [threw |-> FALSE, value |-> "ok"]
         ELSE [threw |-> FALSE, value |-> "response"]

\* wrap: <<data, null>> or <<null, err>>
wrap(outcome) ==
    IF outcome.threw THEN <<"null", "err">> ELSE <<outcome.value, "null">>

\* AlarmBody without the grace for 'starting'
AlarmBody_NoGrace(s, raw) ==
    IF raw.kind = "error" /\ ~raw.notListening /\ ~raw.noContainer THEN "failed"
    ELSE IF raw.kind = "error" THEN "starting"
    ELSE IF raw.status >= 200 /\ raw.status <= 299 THEN "running"
    ELSE "unhealthy"

\* AlarmBody that treats 'stopped' as final
AlarmBody_KeepsStopped(s, raw) ==
    IF s = "stopped" THEN "none"
    ELSE IF raw.kind = "error"
    THEN IF raw.notListening \/ raw.noContainer THEN "starting"
         ELSE IF s # "starting" THEN "failed" ELSE "none"
    ELSE IF raw.status >= 200 /\ raw.status <= 299 THEN "running"
    ELSE "unhealthy"

\* AlarmBody that leaves the state alone while the container is not up yet
AlarmBody_NoStartingWrite(s, raw) ==
    IF raw.kind = "error"
    THEN IF raw.notListening \/ raw.noContainer THEN "none"
         ELSE IF s # "starting" THEN "failed" ELSE "none"
    ELSE IF raw.status >= 200 /\ raw.status <= 299 THEN "running"
    ELSE "unhealthy"

\* The callback alarm() hands to stateTx: the value it passes to setState,
\* "none" when it returns without writing.
AlarmBody(s, raw) ==
    LET pair == wrap(healthCheck(raw))
        result == pair[1]
        err == pair[2]
    IN  IF err # "null"
        THEN IF s # "starting" THEN "failed" ELSE "none"
        ELSE IF result = "response" THEN "unhealthy"
        ELSE IF result = "ok" THEN "running"
        ELSE IF result = "not_listening" \/ result = "no_container_yet" THEN "starting"
        ELSE "none"

\* MonitorThenBody that also stops a failed container
MonitorThenBody_StopsFailed(s) ==
    IF s = "running" \/ s = "unhealthy" \/ s = "failed" THEN "stopped" ELSE "none"

\* MonitorThenBody that forgets 'unhealthy'
MonitorThenBody_RunningOnly(s) ==
    IF s = "running" THEN "stopped" ELSE "none"

\* The callback of the monitor's then-handler.
MonitorThenBody(s) ==
    IF s = "running" \/ s = "unhealthy" THEN "stopped" ELSE "none"

\* A catch-handler that records a crash as a stop
MonitorCatchBody_Stopped == "stopped"

\* The catch-handler of the monitor.
MonitorCatchBody == "failed"

\* setState that refuses to overwrite 'failed'
setState_KeepsFailed(stored, v) ==
    IF v = "none" \/ stored = "failed" THEN stored ELSE v

\* setState(v) applied to the stored value; "none" is no call at all.
setState(stored, v) == IF v = "none" THEN stored ELSE v

\* setAlarm that never arms
setAlarm_Never(pending) == pending

\* setAlarm(): set only when getAlarm() is null; the result is a pending alarm.
setAlarm(pending) == IF pending = FALSE THEN TRUE ELSE pending

\* A serializer that admits every callback at once
SerializerFree_Always == TRUE

\* A callback that reads the state again before it decides
CallbackState_Reread(read, stored) == StateRead(stored)

\* stateTx reads the state once and hands it to its callback; the callback
\* decides on that value, whatever the stored state is by then.
CallbackState(read, stored) == read

\* A start() that cancels the handlers of the monitors it supersedes
Superseded_Cancelled(n) == 0

\* start() assigns this.monitor and leaves the handlers attached to earlier
\* monitors as they are.
Superseded(n) == n

\* blockConcurrencyWhile admits a callback only when none is running.
TickInTx == tick.pc \in {"probing", "probed"}

SerializerFree == ~TickInTx /\ Len(monTx) = 0

\* The serializer runs its callers in the order they asked: the tick after
\* the handlers queued before it, a handler that asked later after the tick.
TickAdmitted == SerializerFree /\ ahead = 0

HandlerAdmitted == SerializerFree /\ (tick.pc = "queued" => ahead > 0)

Handlers == nPending + nResolved + nRejected + Len(monTx)

Did(op) == [op |-> op, before |-> state]

----------------------------------------------------------------------------
Init ==
    /\ state = "unset"
    /\ alarm = TRUE
    /\ running = FALSE
    /\ monitor = FALSE
    /\ alive = TRUE
    /\ tick = IdleTick
    /\ nPending = 0
    /\ nResolved = 0
    /\ nRejected = 0
    /\ monTx = <<>>
    /\ starts = 0
    /\ destroying = "idle"
    /\ dlog = <<>>
    /\ ahead = 0
    /\ last = [op |-> "constructor", before |-> "unset"]

----------------------------------------------------------------------------
(* The in-memory part of an instance, as a fresh instance has it. *)
Fresh ==
    /\ tick' = IdleTick
    /\ nResolved' = 0
    /\ nRejected' = 0
    /\ monTx' = <<>>
    /\ starts' = 0
    /\ destroying' = "idle"
    /\ ahead' = 0

\* constructor: a new instance over the same storage and container; whatever
\* an earlier instance had in flight is gone.
Construct ==
    /\ alive' = TRUE
    /\ Fresh
    /\ monitor' = running
    /\ nPending' = IF running THEN 1 ELSE 0
    /\ alarm' = setAlarm(alarm)
    /\ dlog' = <<>>
    /\ last' = Did("constructor")
    /\ UNCHANGED <<state, running>>

----------------------------------------------------------------------------
(* alarm() *)

\* The alarm fires: the slot is empty while the handler runs, and the handler
\* asks the serializer for its critical section.
AlarmFire ==
    /\ alive
    /\ alarm
    /\ tick.pc = "idle"
    /\ alarm' = FALSE
    /\ tick' = [IdleTick EXCEPT !.pc = "queued"]
    /\ ahead' = nResolved
    /\ last' = Did("alarmFire")
    /\ UNCHANGED <<state, running, monitor, alive, nPending, nResolved,
                   nRejected, monTx, starts, destroying, dlog>>

\* stateTx admits the tick and reads the state.
TickEnter ==
    /\ alive
    /\ tick.pc = "queued"
    /\ TickAdmitted
    /\ tick' = [tick EXCEPT !.pc = "probing", !.s = StateRead(state)]
    /\ ahead' = ahead
    /\ last' = Did("tickEnter")
    /\ UNCHANGED <<state, alarm, running, monitor, alive, nPending, nResolved,
                   nRejected, monTx, starts, destroying, dlog>>

\* stateTx rejects (the storage read fails): the body throws, nothing is
\* probed or written, and control passes to the finally block.
TickThrow ==
    /\ alive
    /\ tick.pc = "queued"
    /\ TickAdmitted
    /\ tick' = [tick EXCEPT !.pc = "finally", !.threw = TRUE]
    /\ ahead' = ahead
    /\ last' = Did("tickThrow")
    /\ UNCHANGED <<state, alarm, running, monitor, alive, nPending, nResolved,
                   nRejected, monTx, starts, destroying, dlog>>

\* port.fetch settles with some raw outcome.
TickProbe(raw) ==
    /\ alive
    /\ tick.pc = "probing"
    /\ tick' = [tick EXCEPT !.pc = "probed", !.raw = raw]
    /\ ahead' = ahead
    /\ last' = Did("tickProbe")
    /\ UNCHANGED <<state, alarm, running, monitor, alive, nPending, nResolved,
                   nRejected, monTx, starts, destroying, dlog>>

\* The rest of the callback: classify, write, leave the critical section.
TickApply ==
    /\ alive
    /\ tick.pc = "probed"
    /\ state' = setState(state, AlarmBody(CallbackState(tick.s, state), tick.raw))
    /\ tick' = [tick EXCEPT !.pc = "finally"]
    /\ ahead' = ahead
    /\ last' = Did(IF AlarmBody(CallbackState(tick.s, state), tick.raw) = "none"
                   THEN "tickSkip" ELSE "tickWrite")
    /\ UNCHANGED <<alarm, running, monitor, alive, nPending, nResolved,
                   nRejected, monTx, starts, destroying, dlog>>

\* Rescheduling on the success path only
AlarmFinally_OnSuccess(threw, pending) == IF threw THEN pending ELSE setAlarm(pending)

\* What the finally block of alarm() leaves in the alarm slot.
AlarmFinally(threw, pending) == setAlarm(pending)

\* finally { await this.setAlarm() }, then alarm() returns.
TickFinally ==
    /\ alive
    /\ tick.pc = "finally"
    /\ alarm' = AlarmFinally(tick.threw, alarm)
    /\ tick' = IdleTick
    /\ ahead' = ahead
    /\ last' = Did(IF tick.threw THEN "tickReturnThrown" ELSE "tickReturn")
    /\ UNCHANGED <<state, running, monitor, alive, nPending, nResolved,
                   nRejected, monTx, starts, destroying, dlog>>

----------------------------------------------------------------------------
(* The container process and its monitor *)

\* The process exits: every monitor of this run settles, resolved on a clean
\* exit and rejected on a crash.
ContainerExit(clean) ==
    /\ running
    /\ running' = FALSE
    /\ nResolved' = IF clean THEN nResolved + nPending ELSE nResolved
    /\ nRejected' = IF clean THEN nRejected ELSE nRejected + nPending
    /\ nPending' = 0
    /\ ahead' = ahead
    /\ last' = Did(IF clean THEN "exitClean" ELSE "exitCrash")
    /\ UNCHANGED <<state, alarm, monitor, alive, tick, monTx, starts, destroying, dlog>>

\* then-handler: stateTx admits it and reads the state.
MonitorEnter ==
    /\ alive
    /\ nResolved > 0
    /\ HandlerAdmitted
    /\ nResolved' = nResolved - 1
    /\ monTx' = Append(monTx, StateRead(state))
    /\ ahead' = IF ahead > 0 THEN ahead - 1 ELSE 0
    /\ last' = Did("monitorEnter")
    /\ UNCHANGED <<state, alarm, running, monitor, alive, tick, nPending,
                   nRejected, starts, destroying, dlog>>

\* then-handler: the callback runs on the state read and leaves the section.
MonitorThen(i) ==
    /\ alive
    /\ i \in 1..Len(monTx)
    /\ state' = setState(state, MonitorThenBody(CallbackState(monTx[i], state)))
    /\ monTx' = [j \in 1..(Len(monTx) - 1) |-> IF j < i THEN monTx[j] ELSE monTx[j + 1]]
    /\ ahead' = ahead
    /\ last' = Did(IF MonitorThenBody(CallbackState(monTx[i], state)) = "none"
                   THEN "monitorSkip" ELSE "monitorStopped")
    /\ UNCHANGED <<alarm, running, monitor, alive, tick, nPending, nResolved,
                   nRejected, starts, destroying, dlog>>

\* catch-handler: setState('failed'), with no stateTx around it.
MonitorCatch ==
    /\ alive
    /\ nRejected > 0
    /\ nRejected' = nRejected - 1
    /\ state' = setState(state, MonitorCatchBody)
    /\ ahead' = ahead
    /\ last' = Did("monitorCatch")
    /\ UNCHANGED <<alarm, running, monitor, alive, tick, nPending, nResolved,
                   monTx, starts, destroying, dlog>>

----------------------------------------------------------------------------
(* start() *)

\* start() that attaches a handler on every call
StartAttaches_Always(tracked) == TRUE

\* In the already-running branch a handler is attached only when no monitor
\* is tracked.
StartAttaches(tracked) == ~tracked

\* start() while container.running: attach a monitor if none, return.
StartRunning ==
    /\ alive
    /\ running
    /\ StartAttaches(monitor) => Handlers + starts < MaxHandlers
    /\ monitor' = TRUE
    /\ nPending' = IF StartAttaches(monitor) THEN nPending + 1 ELSE nPending
    /\ ahead' = ahead
    /\ last' = Did(IF monitor THEN "startNoop" ELSE "startAttach")
    /\ UNCHANGED <<state, alarm, running, alive, tick, nResolved, nRejected,
                   monTx, starts, destroying, dlog>>

\* start() while not running, up to the await in setState('starting').
StartWrite ==
    /\ alive
    /\ ~running
    /\ starts < MaxStarts
    /\ Handlers + starts < MaxHandlers
    /\ state' = setState(state, "starting")
    /\ starts' = starts + 1
    /\ ahead' = ahead
    /\ last' = Did("startWrite")
    /\ UNCHANGED <<alarm, running, monitor, alive, tick, nPending, nResolved,
                   nRejected, monTx, destroying, dlog>>

\* start() resumes: container.start(), a fresh monitor and its handler.
StartLaunch ==
    /\ alive
    /\ starts > 0
    /\ starts' = starts - 1
    /\ running' = TRUE
    /\ monitor' = TRUE
    /\ nPending' = Superseded(nPending) + 1
    /\ nResolved' = Superseded(nResolved)
    /\ nRejected' = Superseded(nRejected)
    /\ ahead' = ahead
    /\ last' = Did("startLaunch")
    /\ UNCHANGED <<state, alarm, alive, tick, monTx, destroying, dlog>>

----------------------------------------------------------------------------
(* destroy() *)

\* destroy() that goes from deleteAll straight to container.destroy()
DestroyNext_SkipAlarm(pos, ok) ==
    IF ~ok THEN "abort"
    ELSE IF pos = "idle" THEN "containerDestroy"
    ELSE "abort"

\* destroy() that aborts on a failure only and returns after a clean run
DestroyNext_ReturnsWhenClean(pos, ok) ==
    IF ~ok THEN "abort"
    ELSE IF pos = "idle" THEN "deleteAlarm"
    ELSE IF pos = "deleteAlarm" THEN "containerDestroy"
    ELSE "idle"

\* The order of destroy(): where the call stands after the step at position
\* pos; a failed step leaves the try block for the finally block.
DestroyNext(pos, ok) ==
    IF ~ok THEN "abort"
    ELSE IF pos = "idle" THEN "deleteAlarm"
    ELSE IF pos = "deleteAlarm" THEN "containerDestroy"
    ELSE "abort"

\* storage.deleteAll(); a failure jumps to the finally block.
DestroyDeleteAll(ok) ==
    /\ alive
    /\ destroying = "idle"
    /\ state' = IF ok THEN "unset" ELSE state
    /\ destroying' = DestroyNext(destroying, ok)
    /\ dlog' = <<IF ok THEN "deleteAll" ELSE "deleteAllFailed">>
    /\ ahead' = ahead
    /\ last' = Did(IF ok THEN "deleteAll" ELSE "deleteAllFailed")
    /\ UNCHANGED <<alarm, running, monitor, alive, tick, nPending, nResolved,
                   nRejected, monTx, starts>>

\* storage.deleteAlarm()
DestroyDeleteAlarm(ok) ==
    /\ alive
    /\ destroying = "deleteAlarm"
    /\ alarm' = IF ok THEN FALSE ELSE alarm
    /\ destroying' = DestroyNext(destroying, ok)
    /\ dlog' = Append(dlog, IF ok THEN "deleteAlarm" ELSE "deleteAlarmFailed")
    /\ ahead' = ahead
    /\ last' = Did(IF ok THEN "deleteAlarm" ELSE "deleteAlarmFailed")
    /\ UNCHANGED <<state, running, monitor, alive, tick, nPending, nResolved,
                   nRejected, monTx, starts>>

\* container.destroy(): on success the process is gone and its monitors
\* settle, resolved or rejected.
DestroyContainer(ok, clean) ==
    /\ alive
    /\ destroying = "containerDestroy"
    /\ running' = IF ok THEN FALSE ELSE running
    /\ nResolved' = IF ok /\ clean THEN nResolved + nPending ELSE nResolved
    /\ nRejected' = IF ok /\ ~clean THEN nRejected + nPending ELSE nRejected
    /\ nPending' = IF ok THEN 0 ELSE nPending
    /\ destroying' = DestroyNext(destroying, ok)
    /\ dlog' = Append(dlog, IF ok THEN "containerDestroy" ELSE "containerDestroyFailed")
    /\ ahead' = ahead
    /\ last' = Did(IF ok THEN "containerDestroy" ELSE "containerDestroyFailed")
    /\ UNCHANGED <<state, alarm, monitor, alive, tick, monTx, starts>>

\* finally { ctx.abort() }: the instance and everything it had in flight end.
DestroyAbort ==
    /\ alive
    /\ destroying = "abort"
    /\ alive' = FALSE
    /\ Fresh
    /\ monitor' = FALSE
    /\ nPending' = 0
    /\ dlog' = Append(dlog, "abort")
    /\ last' = Did("abort")
    /\ UNCHANGED <<state, alarm, running>>

----------------------------------------------------------------------------
Next ==
    \/ Construct
    \/ AlarmFire
    \/ TickEnter
    \/ TickThrow
    \/ \E raw \in RawOutcome : TickProbe(raw)
    \/ TickApply
    \/ TickFinally
    \/ \E clean \in BOOLEAN : ContainerExit(clean)
    \/ MonitorEnter
    \/ \E i \in 1..Len(monTx) : MonitorThen(i)
    \/ MonitorCatch
    \/ StartRunning
    \/ StartWrite
    \/ StartLaunch
    \/ \E ok \in BOOLEAN : DestroyDeleteAll(ok)
    \/ \E ok \in BOOLEAN : DestroyDeleteAlarm(ok)
    \/ \E ok \in BOOLEAN, clean \in BOOLEAN : DestroyContainer(ok, clean)
    \/ DestroyAbort

Spec == Init /\ [][Next]_vars

\* The scheduling the code relies on: a pending alarm fires, the serializer
\* runs the callbacks queued at it, and every await of a tick and of a
\* then-handler's callback completes.
LiveSpec ==
    /\ Spec
    /\ WF_vars(AlarmFire)
    /\ WF_vars(TickEnter \/ TickThrow)
    /\ WF_vars(MonitorEnter)
    /\ WF_vars(\E raw \in RawOutcome : TickProbe(raw))
    /\ WF_vars(TickApply)
    /\ WF_vars(TickFinally)
    /\ WF_vars(\E i \in 1..Len(monTx) : MonitorThen(i))

----------------------------------------------------------------------------
(* Properties *)

TickOps == {"tickWrite", "tickSkip"}

GenericError(raw) == raw.kind = "error" /\ ~raw.notListening /\ ~raw.noContainer

\* C1 as stated: a step that takes the state from 'failed' to another
\* lifecycle state is start's write; no tick and no monitor completion does it.
C1_OnlyStartLeavesFailed ==
    [][(state = "failed" /\ state' \in ContainerState \ {"failed"})
          => last'.op = "startWrite"]_vars

\* The steps by which the code does take the state out of 'failed': start's
\* write, destroy's wipe, a tick whose probe outcome is not a generic error,
\* and the 'stopped' write of a then-handler that read 'running' or
\* 'unhealthy' earlier; a generic-error tick, a monitor rejection and a
\* then-handler that read 'failed' keep it.
C1_LeavingFailed ==
    [][(state = "failed" /\ state' # "failed") =>
          \/ last'.op = "startWrite"
          \/ last'.op = "deleteAll"
          \/ last'.op = "tickWrite" /\ ~GenericError(tick.raw)
          \/ /\ last'.op = "monitorStopped"
             /\ \E i \in 1..Len(monTx) : monTx[i] \in {"running", "unhealthy"}]_vars

\* A tick has taken the state from 'failed' to 'running'.
C1_Witness ==
    /\ last.op = "tickWrite"
    /\ last.before = "failed"
    /\ state = "running"

\* C2: at most one callback is inside the serializer's critical section.
C2_MutualExclusion ==
    (IF TickInTx THEN 1 ELSE 0) + Len(monTx) <= 1

C2_Witness ==
    /\ TickInTx
    /\ nResolved > 0

\* The writer of a lifecycle write is inside its own stateTx callback.
WriterInTx(op) ==
    \/ op = "tickWrite" /\ TickInTx
    \/ op = "monitorStopped" /\ Len(monTx) > 0

\* C3: every state write of a tick or of a monitor handler, then-branch and
\* catch-branch alike, is made inside the serializer's critical section.
C3_HandlerWritesSerialized ==
    [][last'.op \in {"tickWrite", "monitorStopped", "monitorCatch"}
          => WriterInTx(last'.op)]_vars

\* C4 as stated: between construction and destroy an alarm is pending in
\* every state, a tick in flight included.
C4_TimerAlwaysPending ==
    (alive /\ destroying = "idle") => alarm

\* C4 amended: between construction and destroy an alarm is pending exactly
\* when no tick is in flight; a fired tick runs with the slot empty and
\* re-arms it on exit.
C4_TimerPendingOrTickInFlight ==
    (alive /\ destroying = "idle") => (alarm <=> tick.pc = "idle")

C4_Witness ==
    /\ alive
    /\ destroying = "idle"
    /\ tick.pc = "finally"
    /\ ~alarm

\* C5: when a tick returns, after a completed body or a thrown one, an alarm
\* is pending.
C5_RescheduleOnEveryExit ==
    last.op \in {"tickReturn", "tickReturnThrown"} => alarm

C5_Witness ==
    /\ last.op = "tickReturnThrown"
    /\ alarm
    /\ tick.pc = "idle"

\* C6: the catch-handler of a rejected monitor leaves the state 'failed',
\* whatever it was.
C6_RejectionFails ==
    last.op = "monitorCatch" => state = "failed"

C6_Witness ==
    /\ last.op = "monitorCatch"
    /\ last.before = "running"
    /\ state = "failed"

\* C7: the then-handler of a resolved monitor writes 'stopped' when it read
\* 'running' or 'unhealthy', and leaves the stored state as it is otherwise.
C7_ResolutionStops ==
    [][last'.op \in {"monitorStopped", "monitorSkip"} =>
          /\ Len(monTx) = 1
          /\ monTx[1] \in {"running", "unhealthy"} => state' = "stopped"
          /\ monTx[1] \in {"starting", "failed", "stopped"} => state' = state]_vars

C7_Witness ==
    /\ last.op = "monitorStopped"
    /\ last.before = "unhealthy"
    /\ state = "stopped"

\* C8: a tick's write is decided by the probe outcome alone: 2xx gives
\* 'running', not-listening and no-container-yet give 'starting', any other
\* response gives 'unhealthy'.
C8_TransitionTable ==
    [][last'.op \in TickOps =>
          /\ (tick.raw.kind = "response" /\ tick.raw.status \in 200..299)
                => state' = "running"
          /\ (tick.raw.kind = "response" /\ tick.raw.status \notin 200..299)
                => state' = "unhealthy"
          /\ (tick.raw.kind = "error" /\ tick.raw.notListening)
                => state' = "starting"
          /\ (tick.raw.kind = "error" /\ tick.raw.noContainer)
                => state' = "starting"]_vars

C8_Witness ==
    /\ last.op = "tickWrite"
    /\ last.before = "unset"
    /\ tick.pc = "finally"
    /\ tick.raw.kind = "error"
    /\ tick.raw.notListening
    /\ state = "starting"

\* C9: on a generic probe error the tick writes 'failed' unless it read
\* 'starting' (an absent state reads as 'starting'), in which case it writes
\* nothing; the error does not leave the callback.
C9_GenericErrorGrace ==
    [][(last'.op \in TickOps /\ GenericError(tick.raw)) =>
          /\ tick.s # "starting" => state' = "failed"
          /\ tick.s = "starting" => state' = state
          /\ ~tick'.threw]_vars

C9_Witness ==
    /\ last.op = "tickSkip"
    /\ tick.pc = "finally"
    /\ GenericError(tick.raw)
    /\ tick.s = "starting"
    /\ ~tick.threw
    /\ state = "unset"

\* C10: start() with the container running and a monitor tracked changes
\* nothing: no launch, no handler, the same state and the same alarm.
C10_StartWhileRunningIsNoop ==
    [][(last'.op \in {"startNoop", "startAttach"} /\ running /\ monitor) =>
          UNCHANGED <<state, alarm, running, monitor, alive, tick, nPending,
                      nResolved, nRejected, monTx, starts, destroying, dlog,
                      ahead>>]_vars

C10_Witness ==
    /\ last.op = "startNoop"
    /\ running
    /\ monitor
    /\ state = "failed"
    /\ last.before = "failed"

\* The four ways a destroy() call can run, step by step.
DestroyRuns ==
    { <<"deleteAllFailed", "abort">>,
      <<"deleteAll", "deleteAlarmFailed", "abort">>,
      <<"deleteAll", "deleteAlarm", "containerDestroyFailed", "abort">>,
      <<"deleteAll", "deleteAlarm", "containerDestroy", "abort">> }

IsPrefix(s, full) == Len(s) <= Len(full) /\ \A i \in 1..Len(s) : s[i] = full[i]

DestroyStepOps ==
    {"deleteAll", "deleteAllFailed", "deleteAlarm", "deleteAlarmFailed",
     "containerDestroy", "containerDestroyFailed"}

\* C11: destroy() deletes the state, then the alarm, then destroys the
\* runtime, then aborts; the deleteAll step empties the state key and the
\* deleteAlarm step empties the alarm slot, so when container.destroy() fails
\* both deletions lie before the abort.
C11_DestroyOrder ==
    /\ [](\E full \in DestroyRuns : IsPrefix(dlog, full))
    /\ [][/\ last'.op = "deleteAll" => state' = "unset"
          /\ last'.op = "deleteAlarm" => ~alarm'
          /\ last'.op = "containerDestroyFailed"
                => dlog = <<"deleteAll", "deleteAlarm">> /\ destroying' = "abort"]_vars

C11_Witness ==
    /\ last.op = "abort"
    /\ dlog = <<"deleteAll", "deleteAlarm", "containerDestroyFailed", "abort">>
    /\ state = "unset"
    /\ ~alarm

\* C12: a destroy() call never returns: none of its steps ends the call, a
\* failed step leads to the abort, and the call leaves flight only by
\* ctx.abort() (or with the instance itself, when a new one is constructed).
C12_DestroyAlwaysAborts ==
    [][/\ last'.op \in DestroyStepOps => destroying' # "idle"
       /\ last'.op \in {"deleteAllFailed", "deleteAlarmFailed", "containerDestroyFailed"}
             => destroying' = "abort"
       /\ (destroying # "idle" /\ destroying' = "idle")
             => \/ last'.op = "abort" /\ ~alive'
                \/ last'.op = "constructor"]_vars

C12_Witness ==
    /\ last.op = "abort"
    /\ ~alive
    /\ dlog = <<"deleteAll", "deleteAlarm", "containerDestroy", "abort">>

\* C13: when destroy() aborts after a clean run of its three steps, the
\* state key is absent and no alarm is pending.
C13_DestroyLeavesNothing ==
    (last.op = "abort" /\ dlog = <<"deleteAll", "deleteAlarm", "containerDestroy", "abort">>)
        => (state = "unset" /\ ~alarm)

\* C14 as stated: the stored value is absent or one of the five states, and
\* once a tick has completed in an instance that has not called destroy() the
\* key is present.
C14_KeyPresentAfterTick ==
    /\ state \in Stored
    /\ (last.op \in TickOps /\ dlog = <<>>) => state # "unset"

\* C14 amended: the stored value is absent or one of the five states; a tick
\* whose probe outcome is not a generic error leaves the key present, and a
\* present key becomes absent only by destroy's deleteAll; a tick whose probe
\* fails with a generic error on an absent key writes nothing.
C14_KeyPresentAfterWrite ==
    /\ [](state \in Stored)
    /\ [][/\ (last'.op \in TickOps /\ ~GenericError(tick.raw))
                => state' \in ContainerState
          /\ (last'.op \in TickOps /\ GenericError(tick.raw) /\ state = "unset"
                /\ tick.s = "starting") => state' = "unset"
          /\ (state # "unset" /\ state' = "unset") => last'.op = "deleteAll"]_vars

C14_Witness ==
    /\ last.op = "tickReturn"
    /\ last.before = "unset"
    /\ state = "unset"
    /\ dlog = <<>>

\* C15: in an execution in which destroy() is never called the alarm fires
\* again and again: after every tick another tick starts.
C15_TimerLoopNeverQuiet ==
    <>(dlog # <<>>) \/ []<>(last.op = "alarmFire")

C15_Witness ==
    /\ last.op = "alarmFire"
    /\ tick.pc = "queued"
    /\ state = "running"
    /\ dlog = <<>>

\* C16: start() does not wait for the serializer: it can write while a tick
\* is inside its critical section, and a tick that read a state other than
\* 'starting' and meets a generic probe error then writes 'failed' over the
\* 'starting' that start() stored in between.
C16_StaleTickOverwritesStart ==
    /\ []((alive /\ TickInTx /\ ~running /\ starts < MaxStarts
              /\ Handlers + starts < MaxHandlers) => ENABLED StartWrite)
    /\ [][(last'.op \in TickOps /\ GenericError(tick.raw)
              /\ tick.s # "starting" /\ state = "starting")
             => state' = "failed"]_vars

C16_Witness ==
    /\ last.op = "tickWrite"
    /\ GenericError(tick.raw)
    /\ tick.s = "failed"
    /\ last.before = "starting"
    /\ state = "failed"

\* C17: start() cancels nothing: the handlers of earlier monitors stay
\* attached, a rejected one can always run and writes 'failed' over the
\* state of the new run, a resolved one reads the state current at its entry.
C17_SupersededHandlersStillRun ==
    /\ []((alive /\ nRejected > 0) => ENABLED MonitorCatch)
    /\ [][/\ last'.op = "startLaunch"
                => /\ nPending' = nPending + 1
                   /\ nResolved' = nResolved
                   /\ nRejected' = nRejected
                   /\ monTx' = monTx
          /\ last'.op = "startWrite"
                => UNCHANGED <<nPending, nResolved, nRejected, monTx>>
          /\ last'.op = "monitorCatch" => state' = "failed"
          /\ last'.op = "monitorEnter"
                => monTx' = Append(monTx, StateRead(state))]_vars

C17_Witness ==
    /\ last.op = "monitorCatch"
    /\ last.before = "starting"
    /\ state = "failed"
    /\ running
    /\ monitor
    /\ nPending = 1

\* C18: start() on a container that is not running first stores 'starting',
\* whatever was stored, and launches nothing yet; on resuming it launches the
\* runtime once and attaches one handler to a fresh monitor.
C18_StartOrder ==
    [][/\ last'.op = "startWrite"
             => /\ ~running
                /\ state' = "starting"
                /\ starts' = starts + 1
                /\ UNCHANGED <<running, monitor, nPending>>
       /\ last'.op = "startLaunch"
             => /\ starts > 0
                /\ starts' = starts - 1
                /\ running'
                /\ monitor'
                /\ nPending' = nPending + 1
                /\ state' = state]_vars

C18_Witness ==
    /\ last.op = "startLaunch"
    /\ last.before = "starting"
    /\ state = "starting"
    /\ running
    /\ monitor
    /\ nPending = 1
    /\ starts = 0

\* C19: a tick that reads 'stopped' rewrites it from its probe outcome like
\* any other state: 2xx gives 'running', not-listening and no-container-yet
\* give 'starting', a generic error gives 'failed'.
C19_StoppedNotPreserved ==
    [][(last'.op \in TickOps /\ tick.s = "stopped" /\ state = "stopped") =>
          /\ state' # "stopped"
          /\ (tick.raw.kind = "response" /\ tick.raw.status \in 200..299)
                => state' = "running"
          /\ (tick.raw.kind = "error" /\ (tick.raw.notListening \/ tick.raw.noContainer))
                => state' = "starting"
          /\ GenericError(tick.raw) => state' = "failed"]_vars

C19_Witness ==
    /\ last.op = "tickWrite"
    /\ tick.s = "stopped"
    /\ last.before = "stopped"
    /\ state = "starting"
    /\ ~running
    /\ starts = 0

\* C20: the run in progress never has more than one handler attached that
\* has not run yet.
C20_OneHandlerPerRun ==
    nPending <= 1

====
